---- MODULE Spec2Model ----
(***************************************************************************)
(* ReFit backend: the step ledger, the streak multiplier and the daily     *)
(* objectives of one authenticated user, as the request handlers of        *)
(* refit_app/views/step_views.py and refit_app/views/task_views.py run     *)
(* them.  Each action is one HTTP request handled from start to end (the   *)
(* service is request/response, and this specification serialises the      *)
(* requests), an admin edit of the catalog, or the passing of time.        *)
(*                                                                         *)
(* Time is counted in hours since midnight of day 0; a calendar date is a  *)
(* day number.  Timestamps and optional values use None for Python's None  *)
(* and SQL NULL.                                                           *)
(***************************************************************************)
EXTENDS Integers, Sequences, FiniteSets, TLC

VARIABLES
    now,            \* timezone.now(), in hours
    usuario,        \* the USUARIOS row of the authenticated user
    pasos,          \* the PASOS rows of the user: date -> steps, None if no row
    objetivos,      \* the OBJETIVOS_DIARIOS rows, pk = index
    asignaciones,   \* the USUARIOS_OBJETIVOS_DIARIOS rows of the user
    syncs,          \* number of step updates accepted so far
    last,           \* the last request handled and its HTTP status
    reqs,           \* the requests in flight: position and local variables
    pasos_dup,      \* date -> the PASOS rows of the date beyond the first
    asig_dup,       \* the (objective, date) pairs that have a second row
    inicio,         \* the rows the behaviour started from
    canjes          \* the CANJES rows of the user, oldest first

vars == <<now, usuario, pasos, objetivos, asignaciones, syncs, last, reqs, pasos_dup, asig_dup, inicio, canjes>>

None == -1

\* ------------------------------------------------------------------ bounds
InitNow == 2        \* the hour at which the behaviour starts
MaxNow == 24        \* the clock stops here
MaxSyncs == 2       \* accepted step updates per behaviour
MaxBatch == 2       \* entries in a batched step update
MaxObj == 2         \* rows of the catalog
MaxPasosDia == 11000    \* steps a PASOS row of the behaviour holds
MaxRacha == 12      \* racha of the rows the multiplier is evaluated on
MaxReqs == 2        \* requests handled concurrently

\* ------------------------------------------------------- program constants
HTTP_200_OK == 200
HTTP_400_BAD_REQUEST == 400
HTTP_404_NOT_FOUND == 404
HTTP_500 == 500
RachaVentana == 24          \* timedelta(hours=24)
MonedasDivisor == 200       \* // 200
ValorRequeridoDefault == 10000

Min(a, b) == IF a <= b THEN a ELSE b

Today == now \div 24
MaxDay == MaxNow \div 24
Dates == 0..MaxDay

\* Values the requests are drawn from.
StepValues == {1, 9999, 11000}
TickHours == {22}
InitRachas == {0, 4, 10}
PremioBase == 50    \* the premio the admin gives an objective

\* ------------------------------------------------------------- multiplier
\* calcular_multiplicador with the cap min(2.0, ...) left out.
calcular_multiplicador_sin_tope(u, t) ==
    IF u.racha_updated_at # None /\ t - u.racha_updated_at >= RachaVentana
    THEN [mult |-> 10,
          user |-> [u EXCEPT !.racha = 0, !.racha_updated_at = None],
          saved |-> TRUE]
    ELSE [mult |-> 10 + u.racha, user |-> u, saved |-> FALSE]

\* calcular_multiplicador without user.racha = 0 in the reset.
calcular_multiplicador_sin_reset(u, t) ==
    IF u.racha_updated_at # None /\ t - u.racha_updated_at >= RachaVentana
    THEN [mult |-> 10,
          user |-> [u EXCEPT !.racha_updated_at = None],
          saved |-> TRUE]
    ELSE [mult |-> Min(20, 10 + u.racha), user |-> u, saved |-> FALSE]

\* calcular_multiplicador: the value in tenths (10 = 1.0, 20 = 2.0), the user
\* object after the call and whether user.save() ran.
calcular_multiplicador(u, t) ==
    IF u.racha_updated_at # None /\ t - u.racha_updated_at >= RachaVentana
    THEN [mult |-> 10,
          user |-> [u EXCEPT !.racha = 0, !.racha_updated_at = None],
          saved |-> TRUE]
    ELSE [mult |-> Min(20, 10 + u.racha), user |-> u, saved |-> FALSE]

\* The products steps * multiplicador that IEEE-754 double arithmetic leaves
\* below the exact product, among the values drawn here:
\* 11000 * 1.4 evaluates to 15399.999999999998.
FloatProductBelow(n, m10) == <<n, m10>> \in {<<11000, 14>>}

\* int((steps * multiplicador) // 200)
MonedasPorPasos(n, m10) ==
    LET exact == (n * m10) \div (MonedasDivisor * 10)
    IN  IF (n * m10) % (MonedasDivisor * 10) = 0 /\ FloatProductBelow(n, m10)
        THEN exact - 1
        ELSE exact

\* --------------------------------------------------------------- requests
\* A request body of PATCH steps: a JSON object {"pasos": v} or a JSON array
\* of {action, steps, date}.  v = None stands for a missing or non-integer
\* value, a negative v for a negative integer; date = None for a string
\* that is no YYYY-MM-DD date.
ValidEntries == [action : {"add", "replace"}, steps : {400}, date : {0}]
InvalidEntries == {[action |-> "bogus", steps |-> 400, date |-> 0],
                   [action |-> "add", steps |-> -5, date |-> 0],
                   [action |-> "add", steps |-> 400, date |-> None]}
Entries == ValidEntries \cup InvalidEntries

\* The lists of at most MaxBatch entries: one valid entry repeated, or "add"
\* entries followed by one invalid entry.  The loop returns at the first
\* entry it rejects, so an invalid entry is drawn only as the last one.
Repetida(e, n) == [i \in 1..n |-> e]

EntryLists ==
    {Repetida(e, n) : e \in ValidEntries, n \in 0..MaxBatch}
    \cup {Append(Repetida([action |-> "add", steps |-> 400, date |-> 0], n), e) :
              n \in 0..(MaxBatch - 1), e \in InvalidEntries}

DictBodies == [kind : {"dict"}, pasos : StepValues \cup {None, -5}, entries : {<<>>}]
ListBodies == [kind : {"list"}, pasos : {None}, entries : EntryLists]
Bodies == DictBodies \cup ListBodies

\* request.data.get("pasos") if a list answered get with None.
RequestDataGetLenient(body) ==
    [raised |-> FALSE, value |-> body.pasos]

\* request.data.get("pasos"): a list has no attribute get.
RequestDataGet(body) ==
    IF body.kind = "list"
    THEN [raised |-> TRUE, value |-> None]
    ELSE [raised |-> FALSE, value |-> body.pasos]

\* The state of one PATCH steps request while its loop runs: the PASOS rows,
\* request.user (the object in memory), the user's row, and the status of an
\* early return (0 while the loop goes on).
EstadoInicial == [pasos |-> pasos, mem |-> usuario, usr |-> usuario, status |-> 0]

\* One iteration of the loop over the entries.  A return inside the
\* transaction.atomic() block leaves the block without an exception: what
\* was saved before it stays saved.
ProcesarEntrada(st, e) ==
    IF e.date = None THEN [st EXCEPT !.status = HTTP_400_BAD_REQUEST]
    ELSE IF e.steps < 0 THEN [st EXCEPT !.status = HTTP_400_BAD_REQUEST]
    ELSE
      LET stored == IF st.pasos[e.date] = None THEN 0 ELSE st.pasos[e.date]
          created == [st.pasos EXCEPT ![e.date] = stored]
      IN  IF e.action \notin {"add", "replace"}
          THEN [st EXCEPT !.pasos = created, !.status = HTTP_400_BAD_REQUEST]
          ELSE
            LET nuevo == IF e.action = "add" THEN stored + e.steps ELSE e.steps
                saved == [st.pasos EXCEPT ![e.date] = nuevo]
            IN  IF e.date # Today
                THEN [st EXCEPT !.pasos = saved]
                ELSE
                  LET m == calcular_multiplicador(st.mem, now)
                      prev_pasos == saved[e.date]
                      delta == e.steps - prev_pasos
                      mem1 ==
                        IF e.action = "add"
                        THEN [m.user EXCEPT
                                !.pasos_totales = @ + e.steps,
                                !.monedas_actuales = @ + MonedasPorPasos(e.steps, m.mult)]
                        ELSE [m.user EXCEPT
                                !.pasos_totales = @ + delta,
                                !.monedas_actuales = @ + MonedasPorPasos(delta, m.mult)]
                  IN  [pasos |-> saved,
                       mem |-> mem1,
                       usr |-> IF m.saved THEN m.user ELSE st.usr,
                       status |-> 0]

RECURSIVE ProcesarLista(_, _, _)
ProcesarLista(st, entries, i) ==
    IF i > Len(entries) \/ st.status # 0 THEN st
    ELSE ProcesarLista(ProcesarEntrada(st, entries[i]), entries, i + 1)

\* The branch of a single {"pasos": n}, applied to today.
ProcesarPasos(st, n) ==
    LET stored == IF st.pasos[Today] = None THEN 0 ELSE st.pasos[Today]
        m == calcular_multiplicador(st.mem, now)
    IN  [pasos |-> [st.pasos EXCEPT ![Today] = stored + n],
         mem |-> [m.user EXCEPT
                    !.pasos_totales = @ + n,
                    !.monedas_actuales = @ + MonedasPorPasos(n, m.mult)],
         usr |-> IF m.saved THEN m.user ELSE st.usr,
         status |-> 0]

\* StepUpdateView.patch with an array body read as such and the test
\* fecha == date.today() left out: every entry credits its coins.
StepUpdateResultSinFecha(body) ==
    LET st0 == EstadoInicial
        Credita(st, e) ==
            LET r == ProcesarEntrada(st, e)
            IN  IF r.status = 0 /\ e.date # Today
                THEN [r EXCEPT !.mem.monedas_actuales =
                         @ + MonedasPorPasos(e.steps,
                                 calcular_multiplicador(st.mem, now).mult)]
                ELSE r
        RECURSIVE Lista(_, _)
        Lista(st, i) ==
            IF i > Len(body.entries) \/ st.status # 0 THEN st
            ELSE Lista(Credita(st, body.entries[i]), i + 1)
        st == IF body.kind = "list" /\ body.entries # <<>>
              THEN Lista(st0, 1)
              ELSE IF body.pasos # None /\ body.pasos >= 0
              THEN ProcesarPasos(st0, body.pasos)
              ELSE [st0 EXCEPT !.status = HTTP_400_BAD_REQUEST]
    IN  IF st.status # 0 THEN st
        ELSE [st EXCEPT !.usr = [st.mem EXCEPT !.last_sync = now],
                        !.status = HTTP_200_OK]

\* StepUpdateView.patch without request.user.last_sync = timezone.now().
StepUpdateResultSinLastSync(body) ==
    LET got == RequestDataGet(body)
        st0 == EstadoInicial
    IN  IF got.raised THEN [st0 EXCEPT !.status = HTTP_500]
        ELSE
          LET st ==
                IF body.kind = "list" /\ body.entries # <<>>
                THEN ProcesarLista(st0, body.entries, 1)
                ELSE IF got.value # None /\ got.value >= 0
                THEN ProcesarPasos(st0, got.value)
                ELSE [st0 EXCEPT !.status = HTTP_400_BAD_REQUEST]
          IN  IF st.status # 0 THEN st
              ELSE [st EXCEPT !.usr = st.mem, !.status = HTTP_200_OK]

\* StepUpdateView.patch: the outcome of the request on the rows.
StepUpdateResult(body) ==
    LET got == RequestDataGet(body)
        st0 == EstadoInicial
    IN  IF got.raised THEN [st0 EXCEPT !.status = HTTP_500]
        ELSE
          LET st ==
                IF body.kind = "list" /\ body.entries # <<>>
                THEN ProcesarLista(st0, body.entries, 1)
                ELSE IF got.value # None /\ got.value >= 0
                THEN ProcesarPasos(st0, got.value)
                ELSE [st0 EXCEPT !.status = HTTP_400_BAD_REQUEST]
          IN  IF st.status # 0 THEN st
              ELSE [st EXCEPT !.usr = [st.mem EXCEPT !.last_sync = now],
                              !.status = HTTP_200_OK]

\* The position of the first entry the loop rejects, 0 if there is none.
PrimeraInvalida(body) ==
    LET bad == {i \in 1..Len(body.entries) : body.entries[i] \in InvalidEntries}
    IN  IF bad = {} THEN 0 ELSE CHOOSE i \in bad : \A j \in bad : i <= j

PatchSteps(body) ==
    /\ syncs < MaxSyncs
    /\ LET r == StepUpdateResult(body)
       IN  /\ \A d \in Dates : r.pasos[d] <= MaxPasosDia
           /\ pasos' = r.pasos
           /\ usuario' = r.usr
           /\ syncs' = IF r.status = HTTP_200_OK \/ r.pasos # pasos
                       THEN syncs + 1 ELSE syncs
           /\ last' = [op |-> IF body.kind = "list" THEN "patch_list" ELSE "patch",
                       invalid |-> PrimeraInvalida(body),
                       status |-> r.status]
    /\ UNCHANGED <<now, objetivos, asignaciones>>

\* ------------------------------------------------------------- objectives
\* The rows an admin creates: ObjetivoDiarioCreateView.post saves tipo,
\* requisito, valor_requerido and premio (premio > 0); is_active keeps its
\* default.
Cuantitativo ==
    [tipo |-> "cuantitativo", requisito |-> "pasos",
     valor_requerido |-> ValorRequeridoDefault, premio |-> PremioBase, is_active |-> TRUE]
Cualitativo ==
    [tipo |-> "cualitativo", requisito |-> "login",
     valor_requerido |-> ValorRequeridoDefault, premio |-> PremioBase, is_active |-> TRUE]

\* The k-th row the admin creates: two step objectives, then a login one.
Plantilla(k) == IF k % 3 = 0 THEN Cualitativo ELSE Cuantitativo

ObjIds == 1..MaxObj
EditedIds == {1}        \* the rows whose is_active the admin edits

\* UsuarioObjetivoDiario.objects.filter(fk_usuarios=user, fecha_creacion=hoy)
TareasDeHoy(rows) == {a \in rows : a.fecha_creacion = Today}

NuevaTarea(id) ==
    [obj |-> id, fecha_creacion |-> Today,
     fecha_completado |-> None, fecha_canjeado |-> None]

\* evaluar_objetivo_cuantitativo with > for >=.
evaluar_objetivo_cuantitativo_estricto(tarea) ==
    LET objetivo == objetivos[tarea.obj]
    IN  IF objetivo.requisito = "pasos"
        THEN pasos[Today] # None /\ pasos[Today] > objetivo.valor_requerido
        ELSE FALSE

\* evaluar_objetivo_cuantitativo
evaluar_objetivo_cuantitativo(tarea) ==
    LET objetivo == objetivos[tarea.obj]
    IN  IF objetivo.requisito = "pasos"
        THEN pasos[Today] # None /\ pasos[Today] >= objetivo.valor_requerido
        ELSE FALSE

\* evaluar_objetivo_cualitativo
evaluar_objetivo_cualitativo(tarea) == FALSE

\* puede_completar_objetivo
puede_completar_objetivo(tarea) ==
    LET tipo == objetivos[tarea.obj].tipo
    IN  IF tipo = "cuantitativo" THEN evaluar_objetivo_cuantitativo(tarea)
        ELSE IF tipo = "cualitativo" THEN evaluar_objetivo_cualitativo(tarea)
        ELSE FALSE

\* The streak test with completadas >= 1 for completadas == total.
AlgunaCompletada(rows) ==
    Cardinality({a \in TareasDeHoy(rows) : a.fecha_completado # None}) >= 1

\* completadas == total, counted after tarea.save()
TodasCompletadas(rows) ==
    Cardinality({a \in TareasDeHoy(rows) : a.fecha_completado # None})
        = Cardinality(TareasDeHoy(rows))

\* ObjetivoDiarioCreateView.post
AdminCreate ==
    /\ Len(objetivos) < MaxObj
    /\ objetivos' = Append(objetivos, Plantilla(Len(objetivos) + 1))
    /\ last' = [op |-> "admin_create", invalid |-> 0, status |-> 201]
    /\ UNCHANGED <<now, usuario, pasos, asignaciones, syncs>>

\* The Django admin form of ObjetivoDiario saves is_active.
AdminSetActive(id, b) ==
    /\ id \in DOMAIN objetivos \cap EditedIds
    /\ objetivos[id].is_active # b
    /\ objetivos' = [objetivos EXCEPT ![id].is_active = b]
    /\ last' = [op |-> "admin_active", invalid |-> 0, status |-> HTTP_200_OK]
    /\ UNCHANGED <<now, usuario, pasos, asignaciones, syncs>>

\* ObjetivosActivosUsuarioView.get creating a row for every objective that
\* has none today, instead of only when the user has no row today.
ListActivosPorObjetivo ==
    /\ asignaciones' =
         asignaciones \cup
           {NuevaTarea(id) : id \in {i \in DOMAIN objetivos :
                                      \A a \in TareasDeHoy(asignaciones) : a.obj # i}}
    /\ last' = [op |-> "list", invalid |-> 0, status |-> HTTP_200_OK]
    /\ UNCHANGED <<now, usuario, pasos, objetivos, syncs>>

\* ObjetivosActivosUsuarioView.get
ListActivos ==
    /\ asignaciones' =
         IF TareasDeHoy(asignaciones) = {}
         THEN asignaciones \cup {NuevaTarea(id) : id \in DOMAIN objetivos}
         ELSE asignaciones
    /\ last' = [op |-> "list", invalid |-> 0, status |-> HTTP_200_OK]
    /\ UNCHANGED <<now, usuario, pasos, objetivos, syncs>>

\* validate_tarea_id without the test of fecha_completado.
CheckValidateSinCompletada(tarea_id) ==
    IF ~(tarea_id \in DOMAIN objetivos /\ objetivos[tarea_id].is_active)
    THEN [status |-> HTTP_404_NOT_FOUND, tarea |-> NuevaTarea(0), rows |-> asignaciones]
    ELSE
      LET found == {a \in TareasDeHoy(asignaciones) : a.obj = tarea_id}
          tarea == IF found = {} THEN NuevaTarea(tarea_id) ELSE CHOOSE a \in found : TRUE
      IN  [status |-> 0, tarea |-> tarea, rows |-> asignaciones \cup {tarea}]

\* CheckDailyTaskSerializer.validate_tarea_id: the status of the validation
\* (0 when valid), the row it got or created, and the table afterwards.
CheckValidate(tarea_id) ==
    IF ~(tarea_id \in DOMAIN objetivos /\ objetivos[tarea_id].is_active)
    THEN [status |-> HTTP_404_NOT_FOUND, tarea |-> NuevaTarea(0), rows |-> asignaciones]
    ELSE
      LET found == {a \in TareasDeHoy(asignaciones) : a.obj = tarea_id}
          tarea == IF found = {} THEN NuevaTarea(tarea_id) ELSE CHOOSE a \in found : TRUE
      IN  [status |-> IF tarea.fecha_completado # None
                      THEN HTTP_400_BAD_REQUEST ELSE 0,
           tarea |-> tarea,
           rows |-> asignaciones \cup {tarea}]

\* CheckDailyTaskView.post
CheckPost(tarea_id) ==
    LET v == CheckValidate(tarea_id)
    IN  /\ IF v.status # 0
           THEN /\ asignaciones' = v.rows
                /\ usuario' = usuario
                /\ last' = [op |-> "check", invalid |-> 0, status |-> v.status]
           ELSE IF ~puede_completar_objetivo(v.tarea)
           THEN /\ asignaciones' = v.rows
                /\ usuario' = usuario
                /\ last' = [op |-> "check", invalid |-> 0,
                            status |-> HTTP_400_BAD_REQUEST]
           ELSE LET hecha == [v.tarea EXCEPT !.fecha_completado = now]
                    rows == (v.rows \ {v.tarea}) \cup {hecha}
                IN  /\ asignaciones' = rows
                    /\ usuario' =
                         IF TodasCompletadas(rows)
                         THEN [usuario EXCEPT !.racha = @ + 1,
                                              !.racha_updated_at = now]
                         ELSE usuario
                    /\ last' = [op |-> "check", invalid |-> 0,
                                status |-> HTTP_200_OK]
        /\ UNCHANGED <<now, pasos, objetivos, syncs>>

\* ExchangeDailyTaskView.post stamping fecha_canjeado on today's row of the
\* objective without looking at fecha_completado.
ExchangePostSinValidar(tarea_id) ==
    /\ asignaciones' =
         {IF a.obj = tarea_id /\ a.fecha_creacion = Today
          THEN [a EXCEPT !.fecha_canjeado = now] ELSE a : a \in asignaciones}
    /\ last' = [op |-> "exchange", invalid |-> 0, status |-> HTTP_200_OK]
    /\ UNCHANGED <<now, usuario, pasos, objetivos, syncs>>

\* ExchangeDailyTaskView.post: the handler reads the local variable tarea
\* before any statement binds it, so every request ends in UnboundLocalError
\* before serializer.is_valid() runs.
ExchangePost(tarea_id) ==
    /\ last' = [op |-> "exchange", invalid |-> 0, status |-> HTTP_500]
    /\ UNCHANGED <<now, usuario, pasos, objetivos, asignaciones, syncs>>

Init ==
    /\ now = InitNow
    /\ \E r \in InitRachas :
         usuario = [racha |-> r,
                    racha_updated_at |-> IF r = 0 THEN None ELSE 0,
                    pasos_totales |-> 0,
                    monedas_actuales |-> 0,
                    last_sync |-> None]
    /\ pasos = [d \in Dates |-> None]
    /\ objetivos = <<>>
    /\ asignaciones = {}
    /\ syncs = 0
    /\ last = [op |-> "init", invalid |-> 0, status |-> HTTP_200_OK]
    /\ reqs = <<>>
    /\ pasos_dup = [d \in Dates |-> <<>>]
    /\ asig_dup = {}
    /\ inicio = [pasos |-> pasos, usuario |-> usuario]
    /\ canjes = <<>>

Tick(d) ==
    /\ now + d <= MaxNow
    /\ now' = now + d
    /\ last' = [op |-> "tick", invalid |-> 0, status |-> HTTP_200_OK]
    /\ UNCHANGED <<usuario, pasos, objetivos, asignaciones, syncs>>

\* The requests are handled one at a time: none is in flight between two
\* steps, and no date has a second PASOS row.
Next ==
    /\ \/ \E d \in TickHours : Tick(d)
       \/ \E body \in Bodies : PatchSteps(body)
       \/ AdminCreate
       \/ \E id \in ObjIds, b \in BOOLEAN : AdminSetActive(id, b)
       \/ ListActivos
       \/ \E id \in ObjIds \cup {MaxObj + 1} : CheckPost(id)
       \/ \E id \in ObjIds \cup {MaxObj + 1} : ExchangePost(id)
    /\ UNCHANGED <<reqs, pasos_dup, asig_dup, inicio, canjes>>

Spec == Init /\ [][Next]_vars

\* ================================================================= claims
Stored(d) == IF pasos[d] = None THEN 0 ELSE pasos[d]

DictBody(n) == [kind |-> "dict", pasos |-> n, entries |-> <<>>]

\* What the contract of the batched form says the rows are after the valid
\* entries es[i..] are applied to the rows p.
RECURSIVE ContractPasos(_, _, _)
ContractPasos(p, es, i) ==
    IF i > Len(es) THEN p
    ELSE LET e == es[i]
             old == IF p[e.date] = None THEN 0 ELSE p[e.date]
             new == IF e.action = "add" THEN old + e.steps ELSE e.steps
         IN  ContractPasos([p EXCEPT ![e.date] = new], es, i + 1)

RECURSIVE SumaPasos(_, _)
SumaPasos(p, ds) ==
    IF ds = {} THEN 0
    ELSE LET d == CHOOSE x \in ds : TRUE
         IN  (IF p[d] = None THEN 0 ELSE p[d]) + SumaPasos(p, ds \ {d})

ListasDe(action) ==
    {b \in ListBodies : /\ b.entries # <<>>
                        /\ \A i \in 1..Len(b.entries) :
                              /\ b.entries[i] \in ValidEntries
                              /\ b.entries[i].action = action}

\* The rows and the total the contract gives for a list of valid entries.
ContractHolds(b) ==
    /\ pasos' = ContractPasos(pasos, b.entries, 1)
    /\ usuario'.pasos_totales =
         usuario.pasos_totales
           + SumaPasos(ContractPasos(pasos, b.entries, 1), Dates)
           - SumaPasos(pasos, Dates)

\* C1: every valid "add" of s steps, in the single form or in a list, on
\* today or on another date, adds s to the row of its date and s to
\* pasos_totales.
C1_AddAdjustsTotals ==
    [][/\ \A n \in StepValues :
            PatchSteps(DictBody(n)) =>
               /\ pasos' = [pasos EXCEPT ![Today] = Stored(Today) + n]
               /\ usuario'.pasos_totales = usuario.pasos_totales + n
       /\ \A b \in ListasDe("add") : PatchSteps(b) => ContractHolds(b)]_vars

\* C2: every valid "replace" sets the row of its date to the new value and
\* moves pasos_totales by new - old.
C2_ReplaceAdjustsTotals ==
    [][\A b \in ListasDe("replace") : PatchSteps(b) => ContractHolds(b)]_vars

\* C3: a list with an invalid entry is rejected and leaves every PASOS row and
\* the user's row as they were.
C3_BatchAllOrNothing ==
    [][(last'.op = "patch_list" /\ last'.invalid # 0) =>
          /\ last'.status # HTTP_200_OK
          /\ pasos' = pasos
          /\ usuario' = usuario]_vars

\* A list whose second entry is invalid has been handled.
C3_Witness ==
    /\ last.op = "patch_list"
    /\ last.invalid = 2
    /\ last.status # HTTP_200_OK

\* C4: an accepted step update of n steps for today credits exactly
\* floor(n * multiplier / 200) coins, the multiplier being the one of the
\* streak at that time.
C4_CoinsExactFloor ==
    [][\A n \in StepValues :
          PatchSteps(DictBody(n)) =>
             usuario'.monedas_actuales =
                usuario.monedas_actuales
                  + (n * calcular_multiplicador(usuario, now).mult)
                      \div (MonedasDivisor * 10)]_vars

\* C5: an assignment with fecha_canjeado set has fecha_completado set.
C5_RedeemedImpliesCompleted ==
    \A a \in asignaciones : a.fecha_canjeado # None => a.fecha_completado # None

\* A redeem request has been handled while a row of today is not completed.
C5_Witness ==
    /\ last.op = "exchange"
    /\ \E a \in TareasDeHoy(asignaciones) : a.fecha_completado = None

\* C6: a redeem request for an active objective whose row of today is
\* completed and not yet redeemed sets fecha_canjeado and credits coins.
C6_RedeemSucceedsOnce ==
    [][\A id \in DOMAIN objetivos :
          (/\ last'.op = "exchange"
           /\ ExchangePost(id)
           /\ objetivos[id].is_active
           /\ \E a \in TareasDeHoy(asignaciones) :
                 a.obj = id /\ a.fecha_completado # None /\ a.fecha_canjeado = None)
          => /\ \E a \in TareasDeHoy(asignaciones') :
                   a.obj = id /\ a.fecha_canjeado = now
             /\ usuario'.monedas_actuales > usuario.monedas_actuales]_vars

\* C7: a successful check leaves racha and racha_updated_at as they were
\* while some row of today stays uncompleted, and the one that completes the
\* last row adds 1 to racha and sets racha_updated_at to the time of the check.
C7_StreakOnLastCompletion ==
    [][(last'.op = "check" /\ last'.status = HTTP_200_OK) =>
          IF \A a \in TareasDeHoy(asignaciones') : a.fecha_completado # None
          THEN /\ usuario'.racha = usuario.racha + 1
               /\ usuario'.racha_updated_at = now
          ELSE /\ usuario'.racha = usuario.racha
               /\ usuario'.racha_updated_at = usuario.racha_updated_at]_vars

\* The check that completed the last of at least two rows of today.
C7_Witness ==
    /\ last.op = "check"
    /\ last.status = HTTP_200_OK
    /\ Cardinality(TareasDeHoy(asignaciones)) >= 2
    /\ \A a \in TareasDeHoy(asignaciones) : a.fecha_completado # None
    /\ \E a \in TareasDeHoy(asignaciones) : a.fecha_completado = now
    /\ usuario.racha_updated_at = now

\* The row of today of objective id exists and is not completed.
PendingRow(id) ==
    \E a \in TareasDeHoy(asignaciones) : a.obj = id /\ a.fecha_completado = None

StepsReached(id) ==
    pasos[Today] # None /\ pasos[Today] >= objetivos[id].valor_requerido

CompletedNow(id) ==
    /\ last'.status = HTTP_200_OK
    /\ \E a \in TareasDeHoy(asignaciones') : a.obj = id /\ a.fecha_completado = now

\* C8 as stated: a check on a quantitative "pasos" objective whose row is
\* not completed succeeds iff today's PASOS row holds at least valor_requerido.
C8_CheckIffSteps ==
    [][\A id \in DOMAIN objetivos :
          (/\ last'.op = "check"
           /\ CheckPost(id)
           /\ objetivos[id].tipo = "cuantitativo"
           /\ objetivos[id].requisito = "pasos"
           /\ PendingRow(id))
          => (CompletedNow(id) <=> StepsReached(id))]_vars

\* C8 amended: the same for an objective that is active.
C8_ActiveCheckIffSteps ==
    [][\A id \in DOMAIN objetivos :
          (/\ last'.op = "check"
           /\ CheckPost(id)
           /\ objetivos[id].is_active
           /\ objetivos[id].tipo = "cuantitativo"
           /\ objetivos[id].requisito = "pasos"
           /\ PendingRow(id))
          => (CompletedNow(id) <=> StepsReached(id))]_vars

\* The check that succeeded with exactly valor_requerido steps, 9999 + 1.
C8_Witness ==
    /\ last.op = "check"
    /\ last.status = HTTP_200_OK
    /\ pasos[Today] = ValorRequeridoDefault
    /\ \E a \in TareasDeHoy(asignaciones) : a.fecha_completado = now

\* No (objective, date) pair has two rows (unique_together).
NoDuplicateRows ==
    \A a, b \in asignaciones :
        (a.obj = b.obj /\ a.fecha_creacion = b.fecha_creacion) => a = b

\* C9: the rows of one (objective, date) are never duplicated, the list
\* request of a user without rows today creates them when the catalog has
\* any, and a list request of a user with rows today creates none.
C9_ListIdempotent ==
    /\ []NoDuplicateRows
    /\ [][(last'.op = "list" /\ ListActivos) =>
            /\ (objetivos # <<>> => TareasDeHoy(asignaciones') # {})
            /\ (TareasDeHoy(asignaciones) # {} => asignaciones' = asignaciones)]_vars

\* A list request handled for a user who had rows today: one of them was
\* completed before the request.
C9_Witness ==
    /\ last.op = "list"
    /\ Cardinality(TareasDeHoy(asignaciones)) >= 2
    /\ \E a \in TareasDeHoy(asignaciones) : a.fecha_completado # None

\* C10: the multiplier is between 1.0 and 2.0 at every time.
C10_MultiplierRange ==
    \A t \in now..(MaxNow + RachaVentana) :
        /\ calcular_multiplicador(usuario, t).mult >= 10
        /\ calcular_multiplicador(usuario, t).mult <= 20

\* A streak above 10 reached by a check, its window still open.
C10_Witness ==
    /\ last.op = "check"
    /\ usuario.racha > 10
    /\ usuario.racha_updated_at = now

\* ============================================================ C11 .. C20
\* ------------------------------------------- the multiplier as a function
\* The user rows and the times calcular_multiplicador is evaluated on.  The
\* admin form of User edits racha and leaves racha_updated_at alone, so a row
\* can hold any racha >= 0 with any racha_updated_at, None included.
InitMult ==
    /\ now \in {InitNow, RachaVentana, RachaVentana + InitNow}
    /\ \E r \in 0..MaxRacha, upd \in {None, 0, InitNow} :
         usuario = [racha |-> r,
                    racha_updated_at |-> upd,
                    pasos_totales |-> 0,
                    monedas_actuales |-> 0,
                    last_sync |-> None]
    /\ pasos = [d \in Dates |-> None]
    /\ objetivos = <<>>
    /\ asignaciones = {}
    /\ syncs = 0
    /\ last = [op |-> "init", invalid |-> 0, status |-> HTTP_200_OK]
    /\ reqs = <<>>
    /\ pasos_dup = [d \in Dates |-> <<>>]
    /\ asig_dup = {}
    /\ inicio = [pasos |-> pasos, usuario |-> usuario]
    /\ canjes = <<>>

\* One call calcular_multiplicador(request.user): the value it returns and
\* the row user.save() leaves.
EvalMultiplicador ==
    /\ LET m == calcular_multiplicador(usuario, now)
       IN  /\ usuario' = m.user
           /\ last' = [op |-> "multiplicador", invalid |-> 0,
                       status |-> HTTP_200_OK, mult |-> m.mult]
    /\ UNCHANGED <<now, pasos, objetivos, asignaciones, syncs, reqs, pasos_dup,
                   asig_dup, inicio, canjes>>

NextMult == EvalMultiplicador

SpecMult == InitMult /\ [][NextMult]_vars

\* C11: the multiplier is 1.0 when racha_updated_at is None or 24 hours old
\* or older, and then the row is left with racha 0 and racha_updated_at None
\* in the latter case; otherwise it is min(2.0, 1.0 + 0.1 * racha) and the
\* row is left as it was.
C11_MultiplierCases ==
    [][last'.op = "multiplicador" =>
         IF usuario.racha_updated_at = None
         THEN last'.mult = 10
         ELSE IF now - usuario.racha_updated_at >= RachaVentana
         THEN /\ last'.mult = 10
              /\ usuario'.racha = 0
              /\ usuario'.racha_updated_at = None
         ELSE /\ last'.mult = Min(20, 10 + usuario.racha)
              /\ usuario' = usuario]_vars

\* ---------------------------------------------------- concurrent requests
\* Requests of one user handled by several workers on one PostgreSQL
\* database (READ COMMITTED).  A request is authenticated before its handler
\* runs: request.user is the USUARIOS row as it was read then.  A handler
\* without transaction.atomic() commits each statement; save() writes every
\* column of the object in memory.
ReqIds == 1..MaxReqs
StepsConc == {200, 400}
RowsConc == {None, 9800, 10000}

SinUsuario ==
    [racha |-> 0, racha_updated_at |-> None, pasos_totales |-> 0,
     monedas_actuales |-> 0, last_sync |-> None]

\* A request that has not arrived: kind and arg are set when it arrives, mem
\* is request.user, fila the value of step_obj.pasos, creada whether
\* get_or_create inserted the row, coins the monedas_adicionales computed,
\* tarea the assignment object, completadas the first count of the check
\* handler, status the HTTP status once answered.
ReqNueva ==
    [kind |-> "none", pc |-> "new", arg |-> 0, mem |-> SinUsuario,
     fila |-> None, creada |-> FALSE, coins |-> 0,
     tarea |-> NuevaTarea(0), completadas |-> 0, status |-> 0]

\* The request that holds the lock select_for_update() took on today's PASOS
\* row, and the one whose transaction holds the lock of an UPDATE on the
\* user's row.
HoldsPasosLock(i) ==
    /\ reqs[i].kind = "patch"
    /\ reqs[i].pc \in {"row", "saved"}
    /\ ~reqs[i].creada

HoldsUserLock(i) == reqs[i].kind = "patch" /\ reqs[i].pc = "saved"

\* Authentication: perform_authentication reads the user's row, then the
\* handler starts.
ReqAuth(i, kind, arg) ==
    /\ reqs[i].pc = "new"
    /\ reqs' = [reqs EXCEPT ![i] = [@ EXCEPT !.kind = kind, !.arg = arg,
                                            !.mem = usuario, !.pc = "begin"]]
    /\ UNCHANGED <<now, usuario, pasos, objetivos, asignaciones, syncs, last,
                   pasos_dup, asig_dup, inicio>>

\* Pasos.objects.select_for_update().get_or_create(fecha=hoy): waits while
\* another transaction holds the row, reads the committed row, inserts one
\* if it sees none (an uncommitted insert of another transaction is not
\* seen), and raises MultipleObjectsReturned if it sees several.
PatchGetOrCreate(i) ==
    /\ reqs[i].kind = "patch" /\ reqs[i].pc = "begin"
    /\ \A j \in ReqIds \ {i} : ~HoldsPasosLock(j)
    /\ reqs' = [reqs EXCEPT ![i] =
                  IF pasos_dup[Today] # <<>>
                  THEN [@ EXCEPT !.pc = "done", !.status = HTTP_500]
                  ELSE IF pasos[Today] = None
                  THEN [@ EXCEPT !.pc = "row", !.fila = 0, !.creada = TRUE]
                  ELSE [@ EXCEPT !.pc = "row", !.fila = pasos[Today]]]
    /\ UNCHANGED <<now, usuario, pasos, objetivos, asignaciones, syncs, last,
                   pasos_dup, asig_dup, inicio>>

\* step_obj.pasos += n; step_obj.save(); calcular_multiplicador; the totals;
\* last_sync; request.user.save(): the UPDATE of the user's row waits for
\* the transaction that holds it.
PatchSave(i) ==
    /\ reqs[i].kind = "patch" /\ reqs[i].pc = "row"
    /\ \A j \in ReqIds \ {i} : ~HoldsUserLock(j)
    /\ LET n == reqs[i].arg
           m == calcular_multiplicador(reqs[i].mem, now)
           c == MonedasPorPasos(n, m.mult)
       IN  reqs' = [reqs EXCEPT ![i] =
                      [@ EXCEPT !.pc = "saved",
                                !.fila = @ + n,
                                !.coins = c,
                                !.mem = [m.user EXCEPT
                                           !.pasos_totales = @ + n,
                                           !.monedas_actuales = @ + c,
                                           !.last_sync = now]]]
    /\ UNCHANGED <<now, usuario, pasos, objetivos, asignaciones, syncs, last,
                   pasos_dup, asig_dup, inicio>>

\* The end of the atomic block: the writes of the transaction are committed
\* and its locks released.
PatchCommit(i) ==
    /\ reqs[i].kind = "patch" /\ reqs[i].pc = "saved"
    /\ IF reqs[i].creada /\ pasos[Today] # None
       THEN /\ pasos_dup' = [pasos_dup EXCEPT ![Today] = Append(@, reqs[i].fila)]
            /\ pasos' = pasos
       ELSE /\ pasos' = [pasos EXCEPT ![Today] = reqs[i].fila]
            /\ pasos_dup' = pasos_dup
    /\ usuario' = reqs[i].mem
    /\ syncs' = syncs + 1
    /\ reqs' = [reqs EXCEPT ![i] = [@ EXCEPT !.pc = "done", !.status = HTTP_200_OK]]
    /\ UNCHANGED <<now, objetivos, asignaciones, last, asig_dup, inicio>>

\* unique_together (fk_usuarios, fk_objetivos_diarios, fecha_creacion) with
\* the constraint left out of the table.
ViolaUnicidadSinRestriccion(ids) == FALSE

\* unique_together: an INSERT of rows of today for the objectives ids
\* raises IntegrityError if one of them has a row of today.
ViolaUnicidad(ids) ==
    \E a \in TareasDeHoy(asignaciones) : a.obj \in ids

\* existentes.exists()
ListExists(i) ==
    /\ reqs[i].kind = "list" /\ reqs[i].pc = "begin"
    /\ reqs' = [reqs EXCEPT ![i].pc =
                  IF TareasDeHoy(asignaciones) # {} THEN "read" ELSE "create"]
    /\ UNCHANGED <<now, usuario, pasos, objetivos, asignaciones, syncs, last,
                   pasos_dup, asig_dup, inicio>>

\* UsuarioObjetivoDiario.objects.bulk_create(nuevos): one INSERT of a row
\* per objective of the catalog.
ListBulkCreate(i) ==
    /\ reqs[i].kind = "list" /\ reqs[i].pc = "create"
    /\ IF ViolaUnicidad(DOMAIN objetivos)
       THEN /\ reqs' = [reqs EXCEPT ![i] =
                          [@ EXCEPT !.pc = "done", !.status = HTTP_500]]
            /\ UNCHANGED <<asignaciones, asig_dup>>
       ELSE /\ reqs' = [reqs EXCEPT ![i].pc = "read"]
            /\ asignaciones' =
                  asignaciones \cup {NuevaTarea(id) : id \in DOMAIN objetivos}
            /\ asig_dup' =
                  asig_dup \cup {[obj |-> a.obj, fecha_creacion |-> Today] :
                                    a \in TareasDeHoy(asignaciones)}
    /\ UNCHANGED <<now, usuario, pasos, objetivos, syncs, last, pasos_dup, inicio>>

\* The second query and the response.
ListRespond(i) ==
    /\ reqs[i].kind = "list" /\ reqs[i].pc = "read"
    /\ reqs' = [reqs EXCEPT ![i] = [@ EXCEPT !.pc = "done", !.status = HTTP_200_OK]]
    /\ UNCHANGED <<now, usuario, pasos, objetivos, asignaciones, syncs, last,
                   pasos_dup, asig_dup, inicio>>

\* CheckDailyTaskSerializer.validate_tarea_id: get_object_or_404, then
\* get_or_create of the row of today (with the unique constraint the get and
\* the create act as one statement), then the test of fecha_completado.
CheckValidar(i) ==
    /\ reqs[i].kind = "check" /\ reqs[i].pc = "begin"
    /\ LET id == reqs[i].arg
           found == {a \in TareasDeHoy(asignaciones) : a.obj = id}
           tarea == IF found = {} THEN NuevaTarea(id) ELSE CHOOSE a \in found : TRUE
       IN  IF ~(id \in DOMAIN objetivos /\ objetivos[id].is_active)
           THEN /\ reqs' = [reqs EXCEPT ![i] =
                              [@ EXCEPT !.pc = "done", !.status = HTTP_404_NOT_FOUND]]
                /\ asignaciones' = asignaciones
           ELSE IF [obj |-> id, fecha_creacion |-> Today] \in asig_dup
           THEN /\ reqs' = [reqs EXCEPT ![i] =
                              [@ EXCEPT !.pc = "done", !.status = HTTP_500]]
                /\ asignaciones' = asignaciones
           ELSE /\ asignaciones' = asignaciones \cup {tarea}
                /\ reqs' = [reqs EXCEPT ![i] =
                              IF tarea.fecha_completado # None
                              THEN [@ EXCEPT !.tarea = tarea, !.pc = "done",
                                             !.status = HTTP_400_BAD_REQUEST]
                              ELSE [@ EXCEPT !.tarea = tarea, !.pc = "evaluar"]]
    /\ UNCHANGED <<now, usuario, pasos, objetivos, syncs, last, pasos_dup,
                   asig_dup, inicio>>

\* if not puede_completar_objetivo(tarea): return 400
CheckEvaluar(i) ==
    /\ reqs[i].kind = "check" /\ reqs[i].pc = "evaluar"
    /\ reqs' = [reqs EXCEPT ![i] =
                  IF puede_completar_objetivo(reqs[i].tarea)
                  THEN [@ EXCEPT !.pc = "save"]
                  ELSE [@ EXCEPT !.pc = "done", !.status = HTTP_400_BAD_REQUEST]]
    /\ UNCHANGED <<now, usuario, pasos, objetivos, asignaciones, syncs, last,
                   pasos_dup, asig_dup, inicio>>

\* tarea.fecha_completado = timezone.now(); tarea.save()
CheckSaveTarea(i) ==
    /\ reqs[i].kind = "check" /\ reqs[i].pc = "save"
    /\ LET hecha == [reqs[i].tarea EXCEPT !.fecha_completado = now]
       IN  /\ asignaciones' =
                 {a \in asignaciones : ~(a.obj = hecha.obj
                                          /\ a.fecha_creacion = hecha.fecha_creacion)}
                   \cup {hecha}
           /\ reqs' = [reqs EXCEPT ![i] = [@ EXCEPT !.tarea = hecha, !.pc = "count"]]
    /\ UNCHANGED <<now, usuario, pasos, objetivos, syncs, last, pasos_dup,
                   asig_dup, inicio>>

\* completadas = ...filter(fecha_completado__isnull=False).count()
CheckCountCompletadas(i) ==
    /\ reqs[i].kind = "check" /\ reqs[i].pc = "count"
    /\ reqs' = [reqs EXCEPT ![i] =
                  [@ EXCEPT !.pc = "total",
                            !.completadas =
                               Cardinality({a \in TareasDeHoy(asignaciones) :
                                               a.fecha_completado # None})]]
    /\ UNCHANGED <<now, usuario, pasos, objetivos, asignaciones, syncs, last,
                   pasos_dup, asig_dup, inicio>>

\* total = ...count(); if completadas == total
CheckCountTotal(i) ==
    /\ reqs[i].kind = "check" /\ reqs[i].pc = "total"
    /\ LET total == Cardinality(TareasDeHoy(asignaciones))
                      + Cardinality({k \in asig_dup : k.fecha_creacion = Today})
       IN  reqs' = [reqs EXCEPT ![i] =
                      IF reqs[i].completadas = total
                      THEN [@ EXCEPT !.pc = "racha"]
                      ELSE [@ EXCEPT !.pc = "done", !.status = HTTP_200_OK]]
    /\ UNCHANGED <<now, usuario, pasos, objetivos, asignaciones, syncs, last,
                   pasos_dup, asig_dup, inicio>>

\* request.user.racha += 1; racha_updated_at = now; request.user.save()
CheckSaveUser(i) ==
    /\ reqs[i].kind = "check" /\ reqs[i].pc = "racha"
    /\ \A j \in ReqIds \ {i} : ~HoldsUserLock(j)
    /\ LET mem == [reqs[i].mem EXCEPT !.racha = @ + 1, !.racha_updated_at = now]
       IN  /\ usuario' = mem
           /\ reqs' = [reqs EXCEPT ![i] =
                         [@ EXCEPT !.mem = mem, !.pc = "done",
                                   !.status = HTTP_200_OK]]
    /\ UNCHANGED <<now, pasos, objetivos, asignaciones, syncs, last, pasos_dup,
                   asig_dup, inicio>>

\* A request that fails between two statements (the worker is killed, the
\* connection drops): it is answered 500 or not at all.  An open transaction
\* is rolled back; what a handler without a transaction wrote stays.
Crash(i) ==
    /\ reqs[i].pc \notin {"new", "done"}
    /\ reqs' = [reqs EXCEPT ![i] = [@ EXCEPT !.pc = "done", !.status = HTTP_500]]
    /\ UNCHANGED <<now, usuario, pasos, objetivos, asignaciones, syncs, last,
                   pasos_dup, asig_dup, inicio>>

CatalogoConc == <<Cuantitativo, Cuantitativo>>
RachasConc == {0, 4}

InitConc ==
    /\ now = InitNow
    /\ objetivos = CatalogoConc
    /\ \E r \in RachasConc, fila \in RowsConc :
         /\ pasos = [d \in Dates |-> IF d = Today THEN fila ELSE None]
         /\ usuario = [racha |-> r,
                       racha_updated_at |-> IF r = 0 THEN None ELSE 0,
                       pasos_totales |-> IF fila = None THEN 0 ELSE fila,
                       monedas_actuales |-> 0,
                       last_sync |-> None]
    /\ asignaciones \in {{}, {NuevaTarea(id) : id \in DOMAIN CatalogoConc}}
    /\ syncs = 0
    /\ last = [op |-> "init", invalid |-> 0, status |-> HTTP_200_OK]
    /\ reqs = [i \in ReqIds |-> ReqNueva]
    /\ pasos_dup = [d \in Dates |-> <<>>]
    /\ asig_dup = {}
    /\ inicio = [pasos |-> pasos, usuario |-> usuario]
    /\ canjes = <<>>

NextConc ==
    /\ \E i \in ReqIds :
           \/ \E n \in StepsConc : ReqAuth(i, "patch", n)
           \/ ReqAuth(i, "list", 0)
           \/ \E id \in DOMAIN objetivos : ReqAuth(i, "check", id)
           \/ PatchGetOrCreate(i)
           \/ PatchSave(i)
           \/ PatchCommit(i)
           \/ ListExists(i)
           \/ ListBulkCreate(i)
           \/ ListRespond(i)
           \/ CheckValidar(i)
           \/ CheckEvaluar(i)
           \/ CheckSaveTarea(i)
           \/ CheckCountCompletadas(i)
           \/ CheckCountTotal(i)
           \/ CheckSaveUser(i)
           \/ Crash(i)
    /\ UNCHANGED canjes

SpecConc == InitConc /\ [][NextConc]_vars

\* Requests i and j are two accepted step updates and no other request has
\* arrived.
DosSyncs(i, j) ==
    /\ i # j
    /\ \A k \in {i, j} : /\ reqs[k].kind = "patch"
                          /\ reqs[k].pc = "done"
                          /\ reqs[k].status = HTTP_200_OK
    /\ \A k \in ReqIds \ {i, j} : reqs[k].pc = "new"

\* C12: after two concurrent step updates of a and b steps, today's row and
\* pasos_totales have grown by a + b and monedas_actuales by the coins of
\* both requests.
C12_NoLostUpdate ==
    \A i, j \in ReqIds :
        DosSyncs(i, j) =>
           LET a == reqs[i].arg
               b == reqs[j].arg
               antes == IF inicio.pasos[Today] = None THEN 0 ELSE inicio.pasos[Today]
           IN  /\ Stored(Today) = antes + a + b
               /\ usuario.pasos_totales = inicio.usuario.pasos_totales + a + b
               /\ usuario.monedas_actuales =
                     inicio.usuario.monedas_actuales + reqs[i].coins + reqs[j].coins

\* C13: under every interleaving of list and check requests no (objective,
\* date) pair has two assignment rows.
C13_AtMostOneAssignment ==
    /\ asig_dup = {}
    /\ \A a, b \in asignaciones :
          (a.obj = b.obj /\ a.fecha_creacion = b.fecha_creacion) => a = b

\* Two first accesses of the day raced: a list request saw no row of today
\* and is about to insert, while another list request has inserted them.
C13_Witness ==
    \E i, j \in ReqIds :
        /\ i # j
        /\ reqs[i].kind = "list" /\ reqs[i].pc \in {"read", "done"}
        /\ reqs[i].status \in {0, HTTP_200_OK}
        /\ reqs[j].kind = "list" /\ reqs[j].pc = "create"
        /\ TareasDeHoy(asignaciones) # {}
        /\ inicio.usuario = usuario

\* C14: the list request of a user without rows of today creates exactly one
\* pending row per objective that is active, and none for an inactive one.
C14_ListCreatesActiveOnly ==
    [][(/\ last'.op = "list"
        /\ ListActivos
        /\ TareasDeHoy(asignaciones) = {})
       => TareasDeHoy(asignaciones') =
            {NuevaTarea(id) : id \in {k \in DOMAIN objetivos : objetivos[k].is_active}}]_vars

\* The row of today of objective id is completed and not redeemed, and the
\* objective is active: what a redeem request needs to succeed.
Canjeable(id) ==
    /\ objetivos[id].is_active
    /\ \E a \in TareasDeHoy(asignaciones) :
          a.obj = id /\ a.fecha_completado # None /\ a.fecha_canjeado = None

\* C15: the redeem of a completed, unredeemed row sets its fecha_canjeado to
\* the time of the request, adds exactly the premio of the objective to
\* monedas_actuales, whatever the multiplier, and leaves the other rows alone.
C15_RedeemCreditsPrize ==
    [][\A id \in DOMAIN objetivos :
          (/\ last'.op = "exchange"
           /\ ExchangePost(id)
           /\ Canjeable(id))
          => /\ usuario'.monedas_actuales =
                   usuario.monedas_actuales + objetivos[id].premio
             /\ \A a \in asignaciones :
                   IF a.obj = id /\ a.fecha_creacion = Today
                   THEN [a EXCEPT !.fecha_canjeado = now] \in asignaciones'
                   ELSE a \in asignaciones']_vars

\* ------------------------------------------------------ qualitative events
\* The rows of today that a qualitative event with requirement c is about:
\* the filter of QualitativeObjectiveSerializer.validate_requisito and of
\* marcar_objetivo_cualitativo_como_completado.
PendientesCualitativas(c) ==
    {a \in TareasDeHoy(asignaciones) :
        /\ objetivos[a.obj].tipo = "cualitativo"
        /\ objetivos[a.obj].requisito = c
        /\ a.fecha_completado = None}

\* The try block of LoginView.post.  The view is AllowAny: request.user is
\* the user of a bearer token if the client sent one (conToken) and
\* AnonymousUser otherwise.  With AnonymousUser the filter of
\* validate_requisito raises TypeError; with a user and no pending row
\* is_valid() is False; with a pending row is_valid() is True and the loop
\* reads obj_serializer.tareas_qualitativas, an attribute the serializer
\* does not have (AttributeError).  No path reaches tarea.save().
LoginMarcar(conToken) ==
    IF ~conToken THEN [rows |-> asignaciones, raised |-> TRUE]
    ELSE IF PendientesCualitativas("login") = {}
    THEN [rows |-> asignaciones, raised |-> FALSE]
    ELSE [rows |-> asignaciones, raised |-> TRUE]

\* LoginView.post without the try/except around the qualitative marking.
LoginPostSinTry(conToken) ==
    /\ LET r == LoginMarcar(conToken)
       IN  /\ asignaciones' = r.rows
           /\ last' = [op |-> "login", invalid |-> 0,
                       status |-> IF r.raised THEN HTTP_500 ELSE HTTP_200_OK]
    /\ UNCHANGED <<now, usuario, pasos, objetivos, syncs>>

\* LoginView.post with valid credentials of an active user: the exception
\* of the marking is logged and the login answers 200.
LoginPost(conToken) ==
    /\ LET r == LoginMarcar(conToken)
       IN  /\ asignaciones' = r.rows
           /\ last' = [op |-> "login", invalid |-> 0, status |-> HTTP_200_OK]
    /\ UNCHANGED <<now, usuario, pasos, objetivos, syncs>>

CatalogoCual == <<Cualitativo, Cuantitativo>>

InitCual ==
    /\ now = InitNow
    /\ objetivos = CatalogoCual
    /\ \E r \in InitRachas :
         usuario = [racha |-> r,
                    racha_updated_at |-> IF r = 0 THEN None ELSE 0,
                    pasos_totales |-> 0,
                    monedas_actuales |-> 0,
                    last_sync |-> None]
    /\ pasos = [d \in Dates |-> None]
    /\ asignaciones = {}
    /\ syncs = 0
    /\ last = [op |-> "init", invalid |-> 0, status |-> HTTP_200_OK]
    /\ reqs = <<>>
    /\ pasos_dup = [d \in Dates |-> <<>>]
    /\ asig_dup = {}
    /\ inicio = [pasos |-> pasos, usuario |-> usuario]
    /\ canjes = <<>>

\* The clock of these behaviours stops twice a day.
TickHoursCual == {11}

NextCual ==
    /\ \/ \E d \in TickHoursCual : Tick(d)
       \/ PatchSteps(DictBody(ValorRequeridoDefault))
       \/ ListActivos
       \/ \E id \in DOMAIN objetivos : CheckPost(id)
       \/ \E id \in DOMAIN objetivos : ExchangePost(id)
       \/ \E conToken \in BOOLEAN : LoginPost(conToken)
    /\ UNCHANGED <<reqs, pasos_dup, asig_dup, inicio, canjes>>

SpecCual == InitCual /\ [][NextCual]_vars

\* C16: a login of a user who has a pending qualitative "login" row of today
\* completes that row, and adds 1 to racha and sets racha_updated_at if no
\* row of today is left uncompleted.
C16_LoginCompletesQualitative ==
    [][(last'.op = "login" /\ PendientesCualitativas("login") # {}) =>
          /\ \A a \in PendientesCualitativas("login") :
                \E b \in asignaciones' :
                    /\ b.obj = a.obj
                    /\ b.fecha_creacion = a.fecha_creacion
                    /\ b.fecha_completado # None
          /\ (\A b \in TareasDeHoy(asignaciones') : b.fecha_completado # None)
                => /\ usuario'.racha = usuario.racha + 1
                   /\ usuario'.racha_updated_at = now]_vars

\* C17: a login of a user without a pending qualitative "login" row of
\* today answers 200 and changes no assignment and no field of the user.
C17_LoginNoOp ==
    [][(last'.op = "login" /\ PendientesCualitativas("login") = {}) =>
          /\ last'.status = HTTP_200_OK
          /\ asignaciones' = asignaciones
          /\ usuario' = usuario]_vars

\* A login handled for a user who has rows but no pending qualitative one.
C17_Witness ==
    /\ last.op = "login"
    /\ last.status = HTTP_200_OK
    /\ asignaciones # {}
    /\ PendientesCualitativas("login") = {}

\* Request i is a check that wrote fecha_completado on its row and then
\* ended, answered or failed, while no other request has arrived.
CheckEscribio(i) ==
    /\ reqs[i].kind = "check"
    /\ reqs[i].pc = "done"
    /\ reqs[i].status \in {HTTP_200_OK, HTTP_500}
    /\ reqs[i].tarea.fecha_completado = now
    /\ reqs[i].tarea \in asignaciones
    /\ \A k \in ReqIds \ {i} : reqs[k].pc = "new"

\* C18: whenever the completion a check request wrote leaves every row of
\* today completed, the racha increment and racha_updated_at of that request
\* are stored too, also when the request failed after that write.
C18_CompletionWithStreak ==
    \A i \in ReqIds :
        (/\ CheckEscribio(i)
         /\ \A a \in TareasDeHoy(asignaciones) : a.fecha_completado # None)
        => /\ usuario.racha = inicio.usuario.racha + 1
           /\ usuario.racha_updated_at = now

\* C19: a check request for an objective that has no row of today for the
\* user is rejected and leaves the assignments as they were.
C19_CheckWithoutAssignment ==
    [][\A id \in DOMAIN objetivos :
          (/\ last'.op = "check"
           /\ CheckPost(id)
           /\ \A a \in TareasDeHoy(asignaciones) : a.obj # id)
          => /\ last'.status # HTTP_200_OK
             /\ asignaciones' = asignaciones]_vars

\* C20: a row whose fecha_completado is set keeps that value, and a row
\* whose fecha_canjeado is set keeps that value, through every later check,
\* login, list and redeem request.
C20_TimestampsWriteOnce ==
    [][\A a \in asignaciones :
          \E b \in asignaciones' :
             /\ b.obj = a.obj
             /\ b.fecha_creacion = a.fecha_creacion
             /\ a.fecha_completado # None => b.fecha_completado = a.fecha_completado
             /\ a.fecha_canjeado # None => b.fecha_canjeado = a.fecha_canjeado]_vars

\* A check of a row completed earlier the same day has been rejected.
C20_Witness ==
    /\ last.op = "check"
    /\ last.status = HTTP_400_BAD_REQUEST
    /\ \E a \in TareasDeHoy(asignaciones) :
          a.fecha_completado # None /\ a.fecha_completado < now

\* ============================================================ C21 .. C30
\* C21: under every interleaving of step updates each date has at most one
\* PASOS row of the user, so that get_or_create of a later step update finds
\* exactly one.
C21_AtMostOneStepRecord ==
    \A d \in Dates : pasos_dup[d] = <<>>

C23_PastDatesKeepCoins ==
    [][(last'.op = "patch_list" /\ last'.invalid = 0 /\ Today > 0) =>
          usuario'.monedas_actuales = usuario.monedas_actuales]_vars

\* A list of entries of day 0 has been answered on day 1 for a user whose
\* multiplier is above 1.0.
C23_Witness ==
    /\ last.op = "patch_list"
    /\ last.invalid = 0
    /\ Today = 1
    /\ usuario.racha > 0
    /\ usuario.racha_updated_at # None

\* C24: a step update answered 200 leaves last_sync at the time of the
\* request, and one answered otherwise leaves last_sync as it was.
C24_LastSync ==
    [][last'.op \in {"patch", "patch_list"} =>
          IF last'.status = HTTP_200_OK
          THEN usuario'.last_sync = now
          ELSE usuario'.last_sync = usuario.last_sync]_vars

\* A step update has been rejected after an earlier one set last_sync.
C24_Witness ==
    /\ last.op \in {"patch", "patch_list"}
    /\ last.status # HTTP_200_OK
    /\ usuario.last_sync # None
    /\ usuario.last_sync < now

\* C25: whenever a check request increments racha, every objective that is
\* active has a completed row of today of the user.
C25_StreakOnlyWhenAllActiveDone ==
    [][(last'.op = "check" /\ usuario'.racha > usuario.racha) =>
          \A id \in DOMAIN objetivos :
              objetivos[id].is_active =>
                 \E a \in TareasDeHoy(asignaciones') :
                     a.obj = id /\ a.fecha_completado # None]_vars

\* C26: within the day the behaviour starts on, racha grows by at most 1,
\* whatever list and check requests and admin edits of the catalog happen.
C26_StreakOncePerDay ==
    Today = InitNow \div 24 =>
        usuario.racha <= inicio.usuario.racha + 1

\* Request i is a check of objective id that wrote fecha_completado: the
\* handler answers 200 only after tarea.save().
CheckCompleto(i, id) ==
    /\ reqs[i].kind = "check"
    /\ reqs[i].arg = id
    /\ reqs[i].pc = "done"
    /\ reqs[i].status = HTTP_200_OK

\* C27: of two concurrent check requests for the same objective at most one
\* sets fecha_completado, and the two raise racha by at most 1.
C27_ConcurrentCheckOnce ==
    \A i, j \in ReqIds : \A id \in DOMAIN objetivos :
        (i # j /\ (\A k \in ReqIds \ {i, j} : reqs[k].pc = "new")) =>
           /\ ~(CheckCompleto(i, id) /\ CheckCompleto(j, id))
           /\ (reqs[i].kind = "check" /\ reqs[j].kind = "check"
                 /\ reqs[i].arg = id /\ reqs[j].arg = id)
                => usuario.racha <= inicio.usuario.racha + 1

\* Request i is an accepted step update, request j a check that incremented
\* racha at the present hour, and no other request has arrived.
SyncYCheck(i, j) ==
    /\ i # j
    /\ reqs[i].kind = "patch" /\ reqs[i].pc = "done" /\ reqs[i].status = HTTP_200_OK
    /\ reqs[j].kind = "check" /\ reqs[j].pc = "done" /\ reqs[j].status = HTTP_200_OK
    /\ reqs[j].mem.racha_updated_at = now
    /\ \A k \in ReqIds \ {i, j} : reqs[k].pc = "new"

\* C28: after a step update and a check of one user that overlapped, the
\* user's row holds the racha increment of the check and the steps and coins
\* of the step update.
C28_NoOverwrite ==
    \A i, j \in ReqIds :
        SyncYCheck(i, j) =>
           /\ usuario.racha = inicio.usuario.racha + 1
           /\ usuario.racha_updated_at = now
           /\ usuario.pasos_totales = inicio.usuario.pasos_totales + reqs[i].arg
           /\ usuario.monedas_actuales = inicio.usuario.monedas_actuales + reqs[i].coins

\* C29: racha is never negative, and a row whose racha_updated_at is None
\* has racha 0, so that its multiplier is 1.0.
C29_NullTimestampZeroStreak ==
    /\ usuario.racha >= 0
    /\ usuario.racha_updated_at = None =>
          /\ usuario.racha = 0
          /\ calcular_multiplicador(usuario, now).mult = 10

\* A step update has reset a racha that was older than 24 hours.
C29_Witness ==
    /\ last.op = "patch"
    /\ last.status = HTTP_200_OK
    /\ inicio.usuario.racha > 0
    /\ usuario.racha_updated_at = None

\* ------------------------------------------------------ product redemption
\* The PRODUCTOS rows, pk = index: two products on offer and one that is
\* not available.
Productos ==
    <<[precio_monedas |-> 30, disponible |-> TRUE],
      [precio_monedas |-> 60, disponible |-> TRUE],
      [precio_monedas |-> 10, disponible |-> FALSE]>>

\* The productId of a request: 0 for a body without it, a pk of the table,
\* or a pk no row has.
ProductIds == 0..(Len(Productos) + 1)

\* ExchangeProductView.post testing monedas_actuales < 0 instead of
\* monedas_actuales < producto.precio_monedas.
ExchangeProductPostSinSaldo(product_id) ==
    /\ IF product_id = 0
       THEN /\ last' = [op |-> "canje", invalid |-> 0,
                        status |-> HTTP_400_BAD_REQUEST, producto |-> product_id]
            /\ UNCHANGED <<usuario, canjes>>
       ELSE IF product_id \notin DOMAIN Productos
       THEN /\ last' = [op |-> "canje", invalid |-> 0,
                        status |-> HTTP_404_NOT_FOUND, producto |-> product_id]
            /\ UNCHANGED <<usuario, canjes>>
       ELSE IF ~Productos[product_id].disponible
       THEN /\ last' = [op |-> "canje", invalid |-> 0,
                        status |-> HTTP_400_BAD_REQUEST, producto |-> product_id]
            /\ UNCHANGED <<usuario, canjes>>
       ELSE IF usuario.monedas_actuales < 0
       THEN /\ last' = [op |-> "canje", invalid |-> 0,
                        status |-> HTTP_400_BAD_REQUEST, producto |-> product_id]
            /\ UNCHANGED <<usuario, canjes>>
       ELSE /\ canjes' = Append(canjes, [producto |-> product_id,
                                         monto |-> Productos[product_id].precio_monedas])
            /\ usuario' = [usuario EXCEPT !.monedas_actuales =
                                             @ - Productos[product_id].precio_monedas]
            /\ last' = [op |-> "canje", invalid |-> 0,
                        status |-> HTTP_200_OK, producto |-> product_id]
    /\ UNCHANGED <<now, pasos, objetivos, asignaciones, syncs, reqs, pasos_dup,
                   asig_dup, inicio>>

\* ExchangeProductView.post
ExchangeProductPost(product_id) ==
    /\ IF product_id = 0
       THEN /\ last' = [op |-> "canje", invalid |-> 0,
                        status |-> HTTP_400_BAD_REQUEST, producto |-> product_id]
            /\ UNCHANGED <<usuario, canjes>>
       ELSE IF product_id \notin DOMAIN Productos
       THEN /\ last' = [op |-> "canje", invalid |-> 0,
                        status |-> HTTP_404_NOT_FOUND, producto |-> product_id]
            /\ UNCHANGED <<usuario, canjes>>
       ELSE IF ~Productos[product_id].disponible
       THEN /\ last' = [op |-> "canje", invalid |-> 0,
                        status |-> HTTP_400_BAD_REQUEST, producto |-> product_id]
            /\ UNCHANGED <<usuario, canjes>>
       ELSE IF usuario.monedas_actuales < Productos[product_id].precio_monedas
       THEN /\ last' = [op |-> "canje", invalid |-> 0,
                        status |-> HTTP_400_BAD_REQUEST, producto |-> product_id]
            /\ UNCHANGED <<usuario, canjes>>
       ELSE /\ canjes' = Append(canjes, [producto |-> product_id,
                                         monto |-> Productos[product_id].precio_monedas])
            /\ usuario' = [usuario EXCEPT !.monedas_actuales =
                                             @ - Productos[product_id].precio_monedas]
            /\ last' = [op |-> "canje", invalid |-> 0,
                        status |-> HTTP_200_OK, producto |-> product_id]
    /\ UNCHANGED <<now, pasos, objetivos, asignaciones, syncs, reqs, pasos_dup,
                   asig_dup, inicio>>

\* The user arrives with coins earned earlier, and one objective exists.
MonedasIniciales == {0, 45}
CatalogoCanje == <<Cuantitativo>>

InitCanje ==
    /\ now = InitNow
    /\ objetivos = CatalogoCanje
    /\ \E r \in InitRachas, c \in MonedasIniciales :
         usuario = [racha |-> r,
                    racha_updated_at |-> IF r = 0 THEN None ELSE 0,
                    pasos_totales |-> 0,
                    monedas_actuales |-> c,
                    last_sync |-> None]
    /\ pasos = [d \in Dates |-> None]
    /\ asignaciones = {}
    /\ syncs = 0
    /\ last = [op |-> "init", invalid |-> 0, status |-> HTTP_200_OK]
    /\ reqs = <<>>
    /\ pasos_dup = [d \in Dates |-> <<>>]
    /\ asig_dup = {}
    /\ inicio = [pasos |-> pasos, usuario |-> usuario]
    /\ canjes = <<>>

NextCanje ==
    \/ /\ \/ \E d \in TickHours : Tick(d)
          \/ \E body \in Bodies : PatchSteps(body)
          \/ ListActivos
          \/ \E id \in DOMAIN objetivos : CheckPost(id)
          \/ \E id \in DOMAIN objetivos : ExchangePost(id)
       /\ UNCHANGED <<reqs, pasos_dup, asig_dup, inicio, canjes>>
    \/ \E id \in ProductIds : ExchangeProductPost(id)

SpecCanje == InitCanje /\ [][NextCanje]_vars

\* C30: monedas_actuales is never negative, and a product redemption of a
\* user whose coins are below the price of the product is rejected and
\* leaves the coins and the CANJES rows as they were.
C30_CoinsNeverNegative ==
    /\ [](usuario.monedas_actuales >= 0)
    /\ [][(/\ last'.op = "canje"
           /\ last'.producto \in DOMAIN Productos
           /\ usuario.monedas_actuales < Productos[last'.producto].precio_monedas)
          => /\ last'.status = HTTP_400_BAD_REQUEST
             /\ usuario' = usuario
             /\ canjes' = canjes]_vars

\* After a redemption, a second one of a product on offer has been rejected
\* for lack of coins.
C30_Witness ==
    /\ last.op = "canje"
    /\ last.status = HTTP_400_BAD_REQUEST
    /\ last.producto \in DOMAIN Productos
    /\ Productos[last.producto].disponible
    /\ usuario.monedas_actuales < Productos[last.producto].precio_monedas
    /\ canjes # <<>>
====
